---- MODULE Spec2Model ----
(***************************************************************************)
(* Model of src/streamlit_app.py: the StableDiffusionLoader class (the     *)
(* "Generator") and the Streamlit page script that drives it (the          *)
(* "Presentation Shell").                                                  *)
(*                                                                         *)
(* Python values are records carrying their type, so that isinstance and   *)
(* len are computed as Python computes them.  A str is a sequence of       *)
(* one-character strings.  torch, diffusers, PIL and the filesystem are    *)
(* the environment: each of their calls either succeeds or raises.         *)
(***************************************************************************)
EXTENDS Integers, Sequences, FiniteSets, TLC

\* ------------------------------------------------------------------ bounds
\* Longest text a caller passes as a prompt or a user types in the field.
MaxLen ==
    1
\* Requests per behaviour: page runs plus direct generate calls.
MaxCalls ==
    2
\* Largest number of images the pipeline returns in its first batch.
MaxBatch ==
    2

Alphabet ==
    {"a"}

Seeds ==
    {"s1", "s2"}

Texts ==
    UNION {[1..k -> Alphabet] : k \in 0..MaxLen}

\* ----------------------------------------------------------- Python values
NoneVal ==
    [type |-> "NoneType"]

PyStr(s) ==
    [type |-> "str", val |-> s]

PyInt ==
    [type |-> "int"]

isinstance_str(x) ==
    x.type = "str"

len(x) ==
    Len(x.val)

\* ------------------------------------------------------- program constants
DefaultPretrainPipe ==
    PyStr(<<"C","o","m","p","V","i","s","/","s","t","a","b","l","e","-",
            "d","i","f","f","u","s","i","o","n","-","v","1","-","4">>)

SAVE_LOCATION ==
    "prompt.jpg"

Style1 ==
    PyStr(<<"S","t","y","l","e"," ","1">>)

Style2 ==
    PyStr(<<"S","t","y","l","e"," ","2">>)

SelectboxOptions ==
    {Style1, Style2}

NoneLiteral ==
    PyStr(<<"N","o","n","e">>)

\* Exceptions, by their Python names.  MemoryError is what the constructor
\* raises for a missing accelerator (ResourceUnavailable); AssertionError is
\* what its asserts raise (InvalidArgument).
MemoryError ==
    "MemoryError"

AssertionError ==
    "AssertionError"

NoError ==
    "None"

\* What the model collaborator (diffusers / torch) can raise.
ModelErrors ==
    {"OSError", "OutOfMemoryError"}

\* What PIL's Image.save raises for a location that cannot be written.
PermissionError ==
    "PermissionError"

\* --------------------------------------------------------- input universes
PromptArgs ==
    {PyStr(s) : s \in Texts} \cup {PyInt}

PipeArgs ==
    {DefaultPretrainPipe, PyStr(<<>>), PyInt}

Locations ==
    {SAVE_LOCATION, "out.png"}

VARIABLES
    cuda,           \* torch.cuda.is_available()
    writable,       \* the locations Image.save can write
    fs,             \* the filesystem: location -> image stored there
    stdout,         \* what print has written
    sd,             \* the live StableDiffusionLoader instance (or None)
    phase,          \* lifecycle of that instance
    ctor,           \* the last constructor call: arguments and outcome
    pc,             \* position inside generate_image_from_prompt
    caller,         \* who called generate_image_from_prompt
    save_location,  \* its parameters ...
    use_token,
    verbose,
    pipe,           \* ... and its locals
    output,         \* the value of pipe(self.prompt) on line 71
    image,
    trace,          \* the steps the current invocation has executed
    thrown,         \* the exception the environment raised in it
    result,         \* what the invocation gave its caller
    before,         \* filesystem and stdout when the invocation started
    calls,          \* requests so far
    uses,           \* calls of the method on the live instance
    made,           \* the live instance's attributes as __init__ left them
    page            \* the page script's run

vars ==
    <<cuda, writable, fs, stdout, sd, phase, ctor, pc, caller, save_location,
      use_token, verbose, pipe, output, image, trace, thrown, result, before,
      calls, uses, made, page>>

\* ----------------------------------------------------------------- variants
\* Variants of the definitions below, each changed the way a slip in the
\* code would change it.  No specification uses them.

\* The asserts placed above the device check.
StableDiffusionLoader_init_asserts_first(prompt, pretrain_pipe, cuda_is_available) ==
    LET self == [prompt |-> prompt,
                 pretrain_pipe |-> pretrain_pipe,
                 device |-> IF cuda_is_available THEN "cuda" ELSE "cpu"]
    IN  IF ~isinstance_str(self.prompt) \/ ~isinstance_str(self.pretrain_pipe)
          THEN [raised |-> AssertionError, self |-> self]
        ELSE IF self.device = "cpu"
          THEN [raised |-> MemoryError, self |-> self]
        ELSE [raised |-> NoError, self |-> self]

\* self.prompt = pretrain_pipe: the wrong parameter stored.
StableDiffusionLoader_init_wrong_attribute(prompt, pretrain_pipe, cuda_is_available) ==
    LET self == [prompt |-> pretrain_pipe,
                 pretrain_pipe |-> pretrain_pipe,
                 device |-> IF cuda_is_available THEN "cuda" ELSE "cpu"]
    IN  IF self.device = "cpu"
          THEN [raised |-> MemoryError, self |-> self]
        ELSE IF ~isinstance_str(self.prompt)
          THEN [raised |-> AssertionError, self |-> self]
        ELSE IF ~isinstance_str(self.pretrain_pipe)
          THEN [raised |-> AssertionError, self |-> self]
        ELSE [raised |-> NoError, self |-> self]

\* The note printed before the image is saved.
After_note_first(step, v) ==
    CASE step = "from_pretrained" -> "to"
      [] step = "to"              -> "pipe"
      [] step = "pipe"            -> IF v THEN "print" ELSE "save"
      [] step = "print"           -> "save"
      [] step = "save"            -> "return"

\* The exception caught and raised again as another one.
Propagate_wrapped(e) ==
    "RuntimeError"

\* pipe(self.prompt)[0][-1]: the last image of the batch.
FirstImage_last(out) ==
    out[1][Len(out[1])]

\* ---------------------------------------------------------------- __init__
\* Lines 38-47: the three attributes are assigned, then the device check,
\* then the two isinstance asserts.  The instance exists for the caller only
\* when nothing was raised.
StableDiffusionLoader_init(prompt, pretrain_pipe, cuda_is_available) ==
    LET self == [prompt |-> prompt,
                 pretrain_pipe |-> pretrain_pipe,
                 device |-> IF cuda_is_available THEN "cuda" ELSE "cpu"]
    IN  IF self.device = "cpu"
          THEN [raised |-> MemoryError, self |-> self]
        ELSE IF ~isinstance_str(self.prompt)
          THEN [raised |-> AssertionError, self |-> self]
        ELSE IF ~isinstance_str(self.pretrain_pipe)
          THEN [raised |-> AssertionError, self |-> self]
        ELSE [raised |-> NoError, self |-> self]

NotCalled ==
    [prompt |-> NoneVal, pretrain_pipe |-> NoneVal, raised |-> "NotCalled"]

Init ==
    /\ cuda \in BOOLEAN
    /\ writable \in SUBSET Locations
    /\ fs = [l \in Locations |-> NoneVal]
    /\ stdout = <<>>
    /\ sd = NoneVal
    /\ phase = "Uninitialized"
    /\ ctor = NotCalled
    /\ pc = "idle"
    /\ caller = "none"
    /\ save_location = SAVE_LOCATION
    /\ use_token = FALSE
    /\ verbose = FALSE
    /\ pipe = NoneVal
    /\ output = NoneVal
    /\ image = NoneVal
    /\ trace = <<>>
    /\ thrown = [by |-> "none"]
    /\ result = [kind |-> "none"]
    /\ before = [fs |-> fs, stdout |-> stdout]
    /\ calls = 0
    /\ uses = 0
    /\ made = NoneVal
    /\ page = [stage |-> "none"]

\* save_location, use_token, verbose, output, trace, thrown, result and before
\* describe the latest call of generate_image_from_prompt, and ctor the
\* latest constructor call, while it is the client's most recent call.
Forget ==
    /\ save_location' = SAVE_LOCATION
    /\ use_token' = FALSE
    /\ verbose' = FALSE
    /\ output' = NoneVal
    /\ trace' = <<>>
    /\ thrown' = [by |-> "none"]
    /\ result' = [kind |-> "none"]
    /\ before' = [fs |-> fs, stdout |-> stdout]

\* A caller evaluates StableDiffusionLoader(prompt, pretrain_pipe).
Construct(prompt, pretrain_pipe) ==
    /\ pc = "idle"
    /\ LET r == StableDiffusionLoader_init(prompt, pretrain_pipe, cuda)
       IN  /\ ctor' = [prompt |-> prompt, pretrain_pipe |-> pretrain_pipe,
                       raised |-> r.raised]
           /\ IF r.raised = NoError
                THEN sd' = r.self /\ made' = r.self /\ uses' = 0
                     /\ phase' = "Constructed"
                ELSE UNCHANGED <<sd, made, uses, phase>>
    /\ Forget
    /\ UNCHANGED <<cuda, writable, fs, stdout, pc, caller, pipe, image, calls,
                   page>>

\* ------------------------------------------------ generate_image_from_prompt
\* The statements of lines 64-75 in program order: the statement that runs
\* after `step` has completed.  The note of line 74 is printed only when
\* verbose is true.
After(step, v) ==
    CASE step = "from_pretrained" -> "to"
      [] step = "to"              -> "pipe"
      [] step = "pipe"            -> "save"
      [] step = "save"            -> IF v THEN "print" ELSE "return"
      [] step = "print"           -> "return"

\* Lines 64-75 hold no try/except: an exception raised inside the method
\* reaches the caller as the object that was raised.
Propagate(e) ==
    e

\* Line 71: pipe(self.prompt)[0][0], the first image of the first field of
\* the pipeline's output (its list of images).
FirstImage(out) ==
    out[1][1]

\* The pipeline's output for one call: (images, nsfw flags).  Each image
\* records the text it was generated from and the devices it ran under.
PipelineOutput(p, text, seed, n, ctx) ==
    << [k \in 1..n |-> [type |-> "Image", prompt |-> text, seed |-> seed,
                        index |-> k, device |-> p.device, autocast |-> ctx]],
       [k \in 1..n |-> FALSE] >>

\* Entry into the method: parameters bound, locals unset.
Enter(loc, tok, v, who, out) ==
    /\ save_location' = loc
    /\ use_token' = tok
    /\ verbose' = v
    /\ pipe' = NoneVal
    /\ output' = NoneVal
    /\ image' = NoneVal
    /\ trace' = <<>>
    /\ thrown' = [by |-> "none"]
    /\ result' = [kind |-> "none"]
    /\ before' = [fs |-> fs, stdout |-> out]
    /\ phase' = "Generating"
    /\ pc' = "from_pretrained"
    /\ caller' = who
    /\ calls' = calls + 1

\* A caller holding the instance calls sd.generate_image_from_prompt(...).
\* The method has no guard on what the instance did before.
Call(loc, tok, v) ==
    /\ pc = "idle"
    /\ sd # NoneVal
    /\ calls < MaxCalls
    /\ Enter(loc, tok, v, "api", stdout)
    /\ ctor' = NotCalled
    /\ uses' = uses + 1
    /\ UNCHANGED <<cuda, writable, fs, stdout, sd, made, page>>

\* from_pretrained skipped when the method ran before on this instance, the
\* pipeline it resolved then kept.
from_pretrained_cached ==
    /\ pc = "from_pretrained"
    /\ pipe' = [type |-> "Pipeline", name |-> sd.pretrain_pipe,
                revision |-> "fp16", torch_dtype |-> "float16",
                use_auth_token |-> use_token, device |-> "unbound"]
    /\ trace' = IF uses > 1 THEN trace ELSE Append(trace, pc)
    /\ pc' = After(pc, verbose)
    /\ UNCHANGED <<output, uses, made, cuda, writable, fs, stdout, sd, phase,
                   ctor, caller, save_location, use_token, verbose, image,
                   thrown, result, before, calls, page>>

\* Lines 64-68.
from_pretrained ==
    /\ pc = "from_pretrained"
    /\ pipe' = [type |-> "Pipeline", name |-> sd.pretrain_pipe,
                revision |-> "fp16", torch_dtype |-> "float16",
                use_auth_token |-> use_token, device |-> "unbound"]
    /\ trace' = Append(trace, pc)
    /\ pc' = After(pc, verbose)
    /\ UNCHANGED <<output, uses, made, cuda, writable, fs, stdout, sd, phase, ctor, caller,
                   save_location, use_token, verbose, image, thrown, result,
                   before, calls, page>>

\* pipe.to("cpu"): the device named again instead of read from self.
to_cpu ==
    /\ pc = "to"
    /\ pipe' = [pipe EXCEPT !.device = "cpu"]
    /\ trace' = Append(trace, pc)
    /\ pc' = After(pc, verbose)
    /\ UNCHANGED <<output, uses, made, cuda, writable, fs, stdout, sd, phase,
                   ctor, caller, save_location, use_token, verbose, image,
                   thrown, result, before, calls, page>>

\* Line 69.
to ==
    /\ pc = "to"
    /\ pipe' = [pipe EXCEPT !.device = sd.device]
    /\ trace' = Append(trace, pc)
    /\ pc' = After(pc, verbose)
    /\ UNCHANGED <<output, uses, made, cuda, writable, fs, stdout, sd, phase, ctor, caller,
                   save_location, use_token, verbose, image, thrown, result,
                   before, calls, page>>

\* Lines 70-71: inference under autocast(self.device).  Sampling is
\* stochastic (seed) and the batch holds one image or more.
pipe_call ==
    /\ pc = "pipe"
    /\ \E seed \in Seeds, n \in 1..MaxBatch :
          output' = PipelineOutput(pipe, sd.prompt, seed, n, sd.device)
    /\ image' = FirstImage(output')
    /\ trace' = Append(trace, pc)
    /\ pc' = After(pc, verbose)
    /\ UNCHANGED <<uses, made, cuda, writable, fs, stdout, sd, phase, ctor, caller,
                   save_location, use_token, verbose, pipe, thrown, result,
                   before, calls, page>>

\* Line 72, when the location can be written.
save ==
    /\ pc = "save"
    /\ save_location \in writable
    /\ fs' = [fs EXCEPT ![save_location] = image]
    /\ trace' = Append(trace, pc)
    /\ pc' = After(pc, verbose)
    /\ UNCHANGED <<output, uses, made, cuda, writable, stdout, sd, phase, ctor, caller,
                   save_location, use_token, verbose, pipe, image, thrown,
                   result, before, calls, page>>

\* Lines 73-74.
print_info ==
    /\ pc = "print"
    /\ stdout' = Append(stdout, [info |-> "saving image to",
                                 save_location |-> save_location])
    /\ trace' = Append(trace, pc)
    /\ pc' = After(pc, verbose)
    /\ UNCHANGED <<output, uses, made, cuda, writable, fs, sd, phase, ctor, caller,
                   save_location, use_token, verbose, pipe, image, thrown,
                   result, before, calls, page>>

\* Line 75, and for the page script lines 122-126 that follow the call.
\* The method's locals end with it.
return_image ==
    /\ pc = "return"
    /\ result' = [kind |-> "return", value |-> image]
    /\ trace' = Append(trace, pc)
    /\ phase' = "Completed"
    /\ pc' = "idle"
    /\ caller' = "none"
    /\ page' = IF caller = "shell"
                 THEN [page EXCEPT !.stage = "displayed",
                                   !.image = fs[SAVE_LOCATION]]
                 ELSE page
    /\ pipe' = NoneVal
    /\ image' = NoneVal
    /\ UNCHANGED <<output, uses, made, cuda, writable, fs, stdout, sd, ctor, save_location,
                   use_token, verbose, thrown, before, calls>>

\* An exception leaves the method at the statement that raised it; the page
\* script has no handler either, so its run ends there.
Raise(e, by) ==
    /\ thrown' = [by |-> by, at |-> pc, exc |-> e]
    /\ result' = [kind |-> "raise", exc |-> Propagate(e)]
    /\ trace' = Append(trace, pc)
    /\ phase' = "Failed"
    /\ pc' = "idle"
    /\ caller' = "none"
    /\ page' = IF caller = "shell" THEN [page EXCEPT !.stage = "error"] ELSE page
    /\ pipe' = NoneVal
    /\ image' = NoneVal
    /\ UNCHANGED <<output, uses, made, cuda, writable, fs, stdout, sd, ctor, save_location,
                   use_token, verbose, before, calls>>

\* A failed model call tried once more from the top before giving up.
ModelRaises_retry(e) ==
    /\ pc \in {"from_pretrained", "to", "pipe"}
    /\ IF Len(trace) < 4
         THEN /\ trace' = Append(trace, pc)
              /\ pc' = "from_pretrained"
              /\ UNCHANGED <<cuda, writable, fs, stdout, sd, phase, ctor,
                             caller, save_location, use_token, verbose, pipe,
                             output, image, thrown, result, before, calls,
                             uses, made, page>>
         ELSE Raise(e, "model")

\* The model collaborator raises in from_pretrained, in to or in the call.
ModelRaises(e) ==
    /\ pc \in {"from_pretrained", "to", "pipe"}
    /\ Raise(e, "model")

\* Line 72, when the location cannot be written.
SaveRaises ==
    /\ pc = "save"
    /\ save_location \notin writable
    /\ Raise(PermissionError, "save")

\* ------------------------------------------------------------- page script
\* Lines 108-110: the text field's value is replaced by the selectbox's
\* whenever the selectbox's value is not the string 'None'.
ChosenPrompt(text, add_selectbox) ==
    IF add_selectbox # NoneLiteral \/ text = NoneVal
      THEN add_selectbox
      ELSE text

\* One run of the page script, lines 98-121, up to its call of
\* generate_image_from_prompt.
PageRun(text, add_selectbox) ==
    /\ pc = "idle"
    /\ calls < MaxCalls
    /\ LET prompt == ChosenPrompt(text, add_selectbox)
       IN  IF len(prompt) > 0
             THEN LET out == Append(stdout, [printed |-> prompt])
                      r == StableDiffusionLoader_init(prompt, DefaultPretrainPipe, cuda)
                  IN  /\ stdout' = out
                      /\ ctor' = [prompt |-> prompt,
                                  pretrain_pipe |-> DefaultPretrainPipe,
                                  raised |-> r.raised]
                      /\ IF r.raised = NoError
                           THEN /\ sd' = r.self
                                /\ made' = r.self
                                /\ uses' = 1
                                /\ page' = [stage |-> "generating", text |-> text,
                                            add_selectbox |-> add_selectbox,
                                            prompt |-> prompt, image |-> NoneVal]
                                /\ Enter(SAVE_LOCATION, FALSE, FALSE, "shell", out)
                           ELSE /\ page' = [stage |-> "error", text |-> text,
                                            add_selectbox |-> add_selectbox,
                                            prompt |-> prompt, image |-> NoneVal]
                                /\ calls' = calls + 1
                                /\ UNCHANGED <<sd, made, uses, phase, pc, caller,
                                               save_location, use_token,
                                               verbose, pipe, output, image, trace,
                                               thrown, result, before>>
             ELSE /\ page' = [stage |-> "form", text |-> text,
                              add_selectbox |-> add_selectbox,
                              prompt |-> prompt, image |-> NoneVal]
                  /\ calls' = calls + 1
                  /\ UNCHANGED <<stdout, ctor, sd, made, uses, phase, pc,
                                 caller, save_location, use_token, verbose,
                                 pipe, output, image, trace, thrown, result,
                                 before>>
    /\ UNCHANGED <<cuda, writable, fs>>

\* The class under any client.
Next ==
    \/ \E p \in PromptArgs, m \in PipeArgs : Construct(p, m)
    \/ \E l \in Locations, t \in BOOLEAN, v \in BOOLEAN : Call(l, t, v)
    \/ from_pretrained
    \/ to
    \/ pipe_call
    \/ save
    \/ print_info
    \/ return_image
    \/ \E e \in ModelErrors : ModelRaises(e)
    \/ SaveRaises

Spec ==
    Init /\ [][Next]_vars

\* The page script, run after run.  It calls the method with verbose left
\* at its default, so line 74 is never reached from it.
ShellNext ==
    \/ \E t \in Texts, s \in SelectboxOptions : PageRun(PyStr(t), s)
    \/ from_pretrained
    \/ to
    \/ pipe_call
    \/ save
    \/ return_image
    \/ \E e \in ModelErrors : ModelRaises(e)
    \/ SaveRaises

ShellSpec ==
    Init /\ [][ShellNext]_vars
\* ------------------------------------------------------------------ claims
CtorCalled ==
    ctor.raised # "NotCalled"

ValidPretrainPipe(x) ==
    isinstance_str(x) /\ len(x) > 0

NonEmptyPrompt(x) ==
    isinstance_str(x) /\ len(x) > 0

Count(seq, x) ==
    Cardinality({i \in 1..Len(seq) : seq[i] = x})

\* The steps of one completed invocation, in order.
Expected(v) ==
    <<"from_pretrained", "to", "pipe", "save">>
      \o (IF v THEN <<"print">> ELSE <<>>) \o <<"return">>

IsPrefix(a, b) ==
    Len(a) <= Len(b) /\ a = SubSeq(b, 1, Len(a))

\* C1: with an accelerated device and a valid model identifier, a
\* constructor call with the empty prompt raises the InvalidArgument error
\* (AssertionError), and no instance ever holds an empty prompt.
C1_EmptyPromptRejected ==
    /\ (CtorCalled /\ cuda /\ ctor.prompt = PyStr(<<>>)
          /\ ValidPretrainPipe(ctor.pretrain_pipe))
         => ctor.raised = AssertionError
    /\ sd # NoneVal => sd.prompt # PyStr(<<>>)

\* C2: without an accelerated device every constructor call, whatever its
\* prompt and model identifier, raises the ResourceUnavailable error
\* (MemoryError) and never the InvalidArgument one, and no instance exists;
\* an instance that exists has the accelerated device.
C2_NoDeviceResourceUnavailable ==
    /\ ~cuda => /\ CtorCalled => ctor.raised = MemoryError
                /\ sd = NoneVal
                /\ phase = "Uninitialized"
    /\ sd # NoneVal => sd.device = "cuda"

\* C2 witness: no device, a constructor call with a prompt that is not a
\* str and a model identifier that is not a str has raised MemoryError.
C2_Witness ==
    /\ ~cuda
    /\ ctor.prompt = PyInt
    /\ ctor.pretrain_pipe = PyInt
    /\ ctor.raised = MemoryError

\* C3: with an accelerated device, a constructor call with a non-empty str
\* prompt and a non-empty str model identifier raises nothing, and the
\* instance holds that prompt and that model identifier unchanged.
C3_ValidConstructionStoresPrompt ==
    (CtorCalled /\ cuda /\ NonEmptyPrompt(ctor.prompt)
       /\ ValidPretrainPipe(ctor.pretrain_pipe))
      => /\ ctor.raised = NoError
         /\ phase \in {"Constructed", "Generating", "Completed", "Failed"}
         /\ sd.prompt = ctor.prompt
         /\ sd.pretrain_pipe = ctor.pretrain_pipe

\* C3 witness: such a call has been made and has built the instance.
C3_Witness ==
    /\ CtorCalled
    /\ cuda
    /\ NonEmptyPrompt(ctor.prompt)
    /\ ValidPretrainPipe(ctor.pretrain_pipe)
    /\ phase = "Constructed"
    /\ sd.prompt = ctor.prompt

\* C4: when the model collaborator raised in the invocation, the invocation
\* ended Failed, its caller got the exception that was raised, and the
\* filesystem is as it was when the invocation began.
C4_ModelErrorSurfacesNoWrite ==
    thrown.by = "model"
      => /\ result = [kind |-> "raise", exc |-> thrown.exc]
         /\ phase = "Failed"
         /\ pc = "idle"
         /\ fs = before.fs
         /\ "save" \notin {trace[i] : i \in 1..Len(trace)}

\* C4 witness: inference raised in an invocation whose save location already
\* held an image.
C4_Witness ==
    /\ thrown.by = "model"
    /\ thrown.at = "pipe"
    /\ result.kind = "raise"
    /\ before.fs[save_location] # NoneVal

\* C5: a completed invocation returned the first image of the first field of
\* the pipeline's output, generated from the instance's prompt, and the save
\* location holds that image.
C5_FirstImagePersistedAndReturned ==
    result.kind = "return"
      => /\ result.value = output[1][1]
         /\ result.value.prompt = sd.prompt
         /\ fs[save_location] = result.value
         /\ \A l \in Locations \ {save_location} : fs[l] = before.fs[l]

\* C5 witness: an invocation whose batch held more than one image completed.
C5_Witness ==
    /\ result.kind = "return"
    /\ Len(output[1]) > 1
    /\ fs[save_location] = result.value

\* C6 as stated: the lifecycle follows only the edges Uninitialized ->
\* Constructed -> Generating -> Completed | Failed; once the instance is
\* Completed or Failed no call moves it back to Generating; the model is
\* called at most once per invocation.
C6_TerminalPerInstance ==
    [][/\ phase \in {"Completed", "Failed"} => phase' # "Generating"
       /\ phase' = "Generating" => phase \in {"Constructed", "Generating"}
       /\ phase' \in {"Completed", "Failed"}
            => phase \in {"Generating", phase'}
       /\ Count(trace', "pipe") <= 1]_vars

\* C6 amended: the lifecycle follows the edges Uninitialized -> Constructed
\* -> Generating -> Completed | Failed within one invocation, which calls the
\* model at most once and never goes back to an earlier step; Completed and
\* Failed end the invocation, not the instance: a further call on the same
\* instance starts a new invocation from its first step.
C6_TerminalPerInvocation ==
    [][/\ phase' = "Generating"
            => \/ phase = "Generating" /\ Len(trace') = Len(trace) + 1
               \/ /\ phase \in {"Constructed", "Completed", "Failed"}
                  /\ pc = "idle"
                  /\ pc' = "from_pretrained"
                  /\ trace' = <<>>
                  /\ uses' = uses + 1
                  /\ sd' = sd
               \/ /\ phase = "Uninitialized"
                  /\ ctor'.raised = NoError
                  /\ uses' = 1
       /\ phase' = "Completed" => phase \in {"Generating", "Completed"}
       /\ phase' = "Failed" => phase \in {"Generating", "Failed"}
       /\ phase' = "Constructed"
            => phase = "Constructed" \/ ctor'.raised = NoError
       /\ phase' # "Uninitialized" \/ phase = "Uninitialized"
       /\ phase \in {"Completed", "Failed"} /\ phase' = phase
            => trace' = trace \/ trace' = <<>>
       /\ Count(trace', "pipe") <= 1
       /\ Count(trace', "from_pretrained") <= 1]_vars

\* C6 witness: a second invocation on one instance has ended.
C6_Witness ==
    /\ uses = 2
    /\ phase \in {"Completed", "Failed"}
    /\ pc = "idle"

\* C7: when saving raised, the invocation ended Failed, its caller got the
\* exception that was raised and no image, nothing was printed in the
\* invocation and nothing was written.
C7_SaveErrorSurfacesNoNote ==
    thrown.by = "save"
      => /\ result = [kind |-> "raise", exc |-> thrown.exc]
         /\ thrown.exc = PermissionError
         /\ phase = "Failed"
         /\ pc = "idle"
         /\ stdout = before.stdout
         /\ fs = before.fs

\* C7 witness: saving raised in an invocation called with verbose true.
C7_Witness ==
    /\ thrown.by = "save"
    /\ verbose
    /\ result.kind = "raise"

\* C8: the steps of an invocation are a prefix of resolve, bind, infer,
\* persist, note (only if verbose), return, each at most once; the next step
\* is the one that follows; a completed invocation has run them all; the
\* pipeline in use was resolved in this invocation; and the image returned
\* and persisted is the first of the batch whatever verbose is.
C8_StepOrder ==
    /\ IsPrefix(trace, Expected(verbose))
    /\ pc # "idle" => pc = Expected(verbose)[Len(trace) + 1]
    /\ pc = "from_pretrained" => pipe = NoneVal
    /\ pc \in {"to", "pipe", "save", "print", "return"}
         => /\ pipe.use_auth_token = use_token
            /\ pipe.name = sd.pretrain_pipe
    /\ result.kind = "return"
         => /\ trace = Expected(verbose)
            /\ result.value = output[1][1]
            /\ fs[save_location] = output[1][1]
            /\ stdout = IF verbose
                          THEN Append(before.stdout,
                                      [info |-> "saving image to",
                                       save_location |-> save_location])
                          ELSE before.stdout

\* C8 witness: a second invocation on one instance completed with verbose
\* true.
C8_Witness ==
    /\ result.kind = "return"
    /\ verbose
    /\ uses = 2
    /\ trace = Expected(TRUE)

\* C9: the instance's prompt, model identifier and device are the ones
\* __init__ left, the device is the accelerated one, and a bound pipeline is
\* bound to that device.
C9_AttributesFixed ==
    /\ sd = made
    /\ sd # NoneVal => sd.device = "cuda"
    /\ (pipe # NoneVal /\ pipe.device # "unbound") => pipe.device = made.device
    /\ output # NoneVal
         => \A k \in 1..Len(output[1]) :
               /\ output[1][k].device = made.device
               /\ output[1][k].autocast = made.device

\* C9 witness: two invocations on one instance, one of them ending now with
\* arguments other than the defaults.
C9_Witness ==
    /\ uses = 2
    /\ pc = "idle"
    /\ phase \in {"Completed", "Failed"}
    /\ save_location # SAVE_LOCATION
    /\ use_token
    /\ verbose
    /\ sd = made

\* C10: in a page run where the user typed a text, the prompt given to the
\* constructor is that text; in a page run where the user typed nothing, no
\* generation starts.
C10_EnteredTextIsPrompt ==
    page.stage # "none"
      => /\ len(page.text) > 0 => page.prompt = page.text
         /\ len(page.text) = 0 => page.stage = "form"
====
